---------------------------- MODULE Spec2Model ----------------------------
(***************************************************************************)
(* A model of the novelty-engine runtime core: the SoapinessMeter window   *)
(* aggregator and the Linter decision engine (src/linter/lint.py), and the *)
(* fact-lock guard with the rewrite step (src/rewriter/fact_locks.py,      *)
(* src/rewriter/rewrite.py).                                               *)
(*                                                                         *)
(* A Python str is a sequence of one-character strings.  A Python float    *)
(* score is a fixed-point integer counting units of 1/Scale.  A Python     *)
(* call that can raise returns a record [exc, val]: exc = "" is a normal   *)
(* return of val, anything else is the exception raised.                   *)
(***************************************************************************)
EXTENDS Integers, Sequences, FiniteSets, TLC

(***************************************************************************)
(* Characters and the str methods the code uses.                           *)
(***************************************************************************)
UpperChars == <<"A","B","C","D","E","F","G","H","I","J","K","L","M",
                "N","O","P","Q","R","S","T","U","V","W","X","Y","Z">>

LowerChars == <<"a","b","c","d","e","f","g","h","i","j","k","l","m",
                "n","o","p","q","r","s","t","u","v","w","x","y","z">>

DigitChars == {"0","1","2","3","4","5","6","7","8","9"}

SpaceChars == {" "}

Range(s) == { s[i] : i \in DOMAIN s }

IsUpper(c) == c \in Range(UpperChars)

IsAlpha(c) == c \in Range(UpperChars) \cup Range(LowerChars)

IsDigit(c) == c \in DigitChars

\* A regex word character \w.
IsWord(c) == IsAlpha(c) \/ IsDigit(c) \/ c = "_"

lower_char(c) ==
  IF IsUpper(c)
  THEN LowerChars[CHOOSE i \in DOMAIN UpperChars : UpperChars[i] = c]
  ELSE c

\* str.lower()
lower(s) == [ i \in DOMAIN s |-> lower_char(s[i]) ]

\* A bug: only the start of hay is compared.
str_contains_prefix(needle, hay) ==
  /\ Len(needle) <= Len(hay)
  /\ \A j \in 1 .. Len(needle) : hay[j] = needle[j]

\* Python's  needle in hay  for two str: needle occurs at some offset of hay.
str_contains(needle, hay) ==
  \E i \in 0 .. (Len(hay) - Len(needle)) :
     \A j \in 1 .. Len(needle) : hay[i + j] = needle[j]

\* str.split() with no argument: the maximal runs of non-whitespace.
RECURSIVE split_from(_, _, _)
split_from(s, i, cur) ==
  IF i > Len(s)
  THEN (IF cur = <<>> THEN <<>> ELSE <<cur>>)
  ELSE IF s[i] \in SpaceChars
       THEN (IF cur = <<>> THEN <<>> ELSE <<cur>>) \o split_from(s, i + 1, <<>>)
       ELSE split_from(s, i + 1, Append(cur, s[i]))

split(s) == split_from(s, 1, <<>>)

(***************************************************************************)
(* Floats as fixed point, and math.log.                                    *)
(***************************************************************************)
Scale == 10 * 1000

LnTerms == 24

Ok(v) == [exc |-> "", val |-> v]

Raised(e) == [exc |-> e, val |-> 0]

\* The series 2 * (z + z^3/3 + z^5/5 + ...), z = (n-d)/(n+d), for n > d > 0.
RECURSIVE ln_series(_, _, _)
ln_series(term, z2, k) ==
  IF k >= LnTerms \/ term = 0
  THEN 0
  ELSE (term \div (2 * k + 1)) + ln_series((term * z2) \div Scale, z2, k + 1)

ln_above_one(n, d) ==
  LET z == ((n - d) * Scale) \div (n + d)
  IN  2 * ln_series(z, (z * z) \div Scale, 0)

\* math.log(n / d) in units of 1/Scale, for n, d > 0.  log(1.0) is exactly 0.
log_ratio(n, d) ==
  IF n = d THEN 0
  ELSE IF n > d THEN ln_above_one(n, d)
  ELSE 0 - ln_above_one(d, n)

\* sum(f.values()) for a function f with integer values.
RECURSIVE sum_values(_, _)
sum_values(f, keys) ==
  IF keys = {} THEN 0
  ELSE LET k == CHOOSE x \in keys : TRUE
       IN  f[k] + sum_values(f, keys \ {k})

max_value(f) == CHOOSE v \in Range(f) : \A w \in Range(f) : w <= v

(***************************************************************************)
(* SoapinessMeter: a record [window_size, window, ngram_counter].          *)
(***************************************************************************)
DefaultWindowSize == 12

\* SoapinessMeter.__init__
SoapinessMeter(window_size) ==
  [ window_size   |-> window_size,
    window        |-> <<>>,
    ngram_counter |-> <<>> ]

\* A bug: the newest entry is refused once the window is full.
deque_append_drop_newest(w, maxlen, x) ==
  IF Len(w) >= maxlen THEN w ELSE Append(w, x)

\* deque(maxlen=maxlen).append(x): a full deque drops its leftmost entry.
deque_append(w, maxlen, x) ==
  IF maxlen = 0 THEN w
  ELSE IF Len(w) = maxlen THEN Append(Tail(w), x)
  ELSE Append(w, x)

counter_add(c, key, by) ==
  IF key \in DOMAIN c
  THEN [ c EXCEPT ![key] = @ + by ]
  ELSE c @@ (key :> by)

\* for i in range(len(tokens) - n + 1): ngram_counter[tuple(tokens[i:i+n])] += 1
RECURSIVE count_ngrams_from(_, _, _, _)
count_ngrams_from(c, tokens, n, i) ==
  IF i > Len(tokens) - n + 1
  THEN c
  ELSE count_ngrams_from(counter_add(c, SubSeq(tokens, i, i + n - 1), 1),
                         tokens, n, i + 1)

\* for n in range(1, 4): ...
count_ngrams(c, tokens) ==
  count_ngrams_from(
    count_ngrams_from(
      count_ngrams_from(c, tokens, 1, 1), tokens, 2, 1), tokens, 3, 1)

\* The n-grams of every utterance of a window, counted from an empty table.
RECURSIVE count_window(_, _)
count_window(c, w) ==
  IF w = <<>> THEN c
  ELSE count_window(count_ngrams(c, split(Head(w))), Tail(w))

\* A bug: the table is recomputed from the window, so that an evicted
\* utterance's n-grams are retracted.
update_windowed(m, utterance) ==
  LET w == deque_append(m.window, m.window_size, utterance)
  IN  [ m EXCEPT !.window = w, !.ngram_counter = count_window(<<>>, w) ]

\* SoapinessMeter.update
update(m, utterance) ==
  [ m EXCEPT
      !.window        = deque_append(m.window, m.window_size, utterance),
      !.ngram_counter = count_ngrams(m.ngram_counter, split(utterance)) ]

\* A bug: the empty table is not guarded.
repetition_score_unguarded(m) ==
  LET c     == m.ngram_counter
      total == sum_values(c, DOMAIN c)
  IN  IF DOMAIN c = {} THEN Raised("ValueError")
      ELSE IF total = 0 THEN Raised("ZeroDivisionError")
      ELSE Ok((max_value(c) * Scale) \div total)

\* SoapinessMeter.repetition_score
repetition_score(m) ==
  LET c     == m.ngram_counter
      total == sum_values(c, DOMAIN c)
  IN  IF total = 0 THEN Ok(0)
      ELSE IF DOMAIN c = {} THEN Raised("ValueError")
      ELSE Ok((max_value(c) * Scale) \div total)

\* counts = Counter(); for utter in window: counts.update(utter.split())
RECURSIVE token_counts(_, _)
token_counts(c, toks) ==
  IF toks = <<>> THEN c
  ELSE token_counts(counter_add(c, Head(toks), 1), Tail(toks))

RECURSIVE window_token_counts(_, _)
window_token_counts(c, w) ==
  IF w = <<>> THEN c
  ELSE window_token_counts(token_counts(c, split(Head(w))), Tail(w))

\* The sum over the counts c of c * log((c/total) / (1/k)), k = len(counts).
RECURSIVE kl_sum(_, _, _, _)
kl_sum(counts, keys, total, k) ==
  IF keys = {} THEN 0
  ELSE LET t == CHOOSE x \in keys : TRUE
       IN  counts[t] * log_ratio(counts[t] * k, total)
             + kl_sum(counts, keys \ {t}, total, k)

\* SoapinessMeter.kl_divergence
kl_divergence(m) ==
  LET counts == window_token_counts(<<>>, m.window)
      total  == sum_values(counts, DOMAIN counts)
      k      == Cardinality(DOMAIN counts)
  IN  IF total = 0 THEN Ok(0)
      ELSE IF k = 0 THEN Raised("ZeroDivisionError")
      ELSE Ok(kl_sum(counts, DOMAIN counts, total, k) \div total)

\* SoapinessMeter.gesture_repetition
gesture_repetition(m) == Ok(0)

\* SoapinessMeter.cliché_hits: sum(1 for c in clichés if c in draft.lower())
RECURSIVE cliche_hits(_, _)
cliche_hits(draft, cliches) ==
  IF cliches = <<>> THEN 0
  ELSE (IF str_contains(Head(cliches), lower(draft)) THEN 1 ELSE 0)
         + cliche_hits(draft, Tail(cliches))


(***************************************************************************)
(* Plan and Linter.  A Linter is a record [dictionary, cliches, cooldowns, *)
(* threshold, meter]: meter names the SoapinessMeter object it holds.      *)
(***************************************************************************)
W_REPETITION == 40

W_KL == 25

W_GESTURE == 20

W_CLICHE == 15

WeightUnit == 10 * 10

\* The dataclass defaults of Plan: max_edit_ratio 0.25, style_constraints.
DefaultMaxEditRatio == (25 * Scale) \div 100

DefaultStyleConstraints ==
  [ voice_weight |-> (9 * Scale) \div 10, temperature_cap |-> (8 * Scale) \div 10 ]

NoLocks == [ k \in {} |-> TRUE ]

\* Plan(mode=..., locks=..., remove=..., inject=..., max_edit_ratio=...)
Plan(mode, locks, remove, inject, max_edit_ratio) ==
  [ mode              |-> mode,
    locks             |-> locks,
    remove            |-> remove,
    inject            |-> inject,
    max_edit_ratio    |-> max_edit_ratio,
    style_constraints |-> DefaultStyleConstraints ]

MicroLocks == [ numbers |-> TRUE, named_entities |-> TRUE, quotes |-> TRUE ]

\* A bug: the locks are set before the decision and kept in a "none" plan.
PlanNoneWithLocks == Plan("none", MicroLocks, <<>>, <<>>, DefaultMaxEditRatio)

\* Plan(mode="none"): every other field takes its default.
PlanNone == Plan("none", NoLocks, <<>>, <<>>, DefaultMaxEditRatio)

\* dict.get(key, default)
dict_get(d, key, default) == IF key \in DOMAIN d THEN d[key] ELSE default

\* soapiness = 0.4*rep + 0.25*kl + 0.2*gest + 0.15*(1 if cliché_count > 0 else 0)
soapiness(meter, draft, cliches) ==
  LET rep  == repetition_score(meter)
      kl   == kl_divergence(meter)
      gest == gesture_repetition(meter)
      hit  == IF cliche_hits(draft, cliches) > 0 THEN 1 ELSE 0
  IN  IF rep.exc # "" THEN rep
      ELSE IF kl.exc # "" THEN kl
      ELSE IF gest.exc # "" THEN gest
      ELSE Ok((W_REPETITION * rep.val + W_KL * kl.val + W_GESTURE * gest.val
                 + W_CLICHE * hit * Scale) \div WeightUnit)

\* A bug: the draft is searched as written, not in lower case.
RECURSIVE cliches_in_keepcase(_, _)
cliches_in_keepcase(draft, cliches) ==
  IF cliches = <<>> THEN <<>>
  ELSE (IF str_contains(Head(cliches), draft) THEN <<Head(cliches)>> ELSE <<>>)
         \o cliches_in_keepcase(draft, Tail(cliches))

\* remove = [c for c in self.clichés if c in draft.lower()]
RECURSIVE cliches_in(_, _)
cliches_in(draft, cliches) ==
  IF cliches = <<>> THEN <<>>
  ELSE (IF str_contains(Head(cliches), lower(draft))
        THEN <<Head(cliches)>> ELSE <<>>)
         \o cliches_in(draft, Tail(cliches))

\* inject: the first pattern of the syn pool, then of the rhythm pool.
pick_patterns(dictionary) ==
  LET syn_pool    == dict_get(dictionary, "syn", <<>>)
      rhythm_pool == dict_get(dictionary, "rhythm", <<>>)
  IN  (IF syn_pool # <<>>
       THEN << [type |-> "syntactic", pattern |-> dict_get(syn_pool[1], "pattern", <<>>)] >>
       ELSE <<>>)
      \o
      (IF rhythm_pool # <<>>
       THEN << [type |-> "rhythm", pattern |-> dict_get(rhythm_pool[1], "pattern", <<>>)] >>
       ELSE <<>>)

\* A bug: the draft is left alone also when the score equals the threshold.
needs_no_intervention_inclusive(score, threshold) == score <= threshold

\* if soapiness < self.threshold
needs_no_intervention(score, threshold) == score < threshold

\* Linter.inspect after its update loop: the scores, the decision, the plan.
inspect_plan(L, meter, draft) ==
  LET s == soapiness(meter, draft, L.cliches)
  IN  IF s.exc # "" THEN s
      ELSE IF needs_no_intervention(s.val, L.threshold) THEN Ok(PlanNone)
      ELSE Ok(Plan("micro", MicroLocks, cliches_in(draft, L.cliches),
                   pick_patterns(L.dictionary), (25 * Scale) \div 100))

\* for utter in context + [draft]: self.meter.update(utter)
RECURSIVE update_all(_, _)
update_all(meter, utterances) ==
  IF utterances = <<>> THEN meter
  ELSE update_all(update(meter, Head(utterances)), Tail(utterances))

\* Linter.inspect as one call on the meter it holds: [meter, result].
inspect(L, meter, draft, context) ==
  LET m == update_all(meter, context \o <<draft>>)
  IN  [ meter |-> m, result |-> inspect_plan(L, m, draft) ]

\* A bug: one process-wide meter serves every Linter.
meter_shared(l) == 1

\* self.meter = SoapinessMeter(): the meter object Linter l holds is its own.
meter_of(l) == l

\* Linter.__init__
Linter(l, dictionary, cliches, cooldowns, threshold) ==
  [ dictionary |-> dictionary,
    cliches    |-> cliches,
    cooldowns  |-> cooldowns,
    threshold  |-> threshold,
    meter      |-> meter_of(l) ]

(***************************************************************************)
(* fact_locks: re.findall with the two patterns, and the containment check.*)
(***************************************************************************)
\* The regex \b between text[k] and text[k+1] (k = 0: the start of the text).
word_boundary(text, k) ==
  LET before == k >= 1 /\ IsWord(text[k])
      after  == k + 1 <= Len(text) /\ IsWord(text[k + 1])
  IN  before # after

\* The last index of the run of characters of a class that starts at i.
RECURSIVE run_end(_, _, _)
run_end(text, i, class) ==
  IF i + 1 <= Len(text) /\ text[i + 1] \in class THEN run_end(text, i + 1, class) ELSE i

NumberChars == DigitChars \cup {",", "."}

AlphaChars == Range(UpperChars) \cup Range(LowerChars)

\* Where a match of \b\d+[\d,.]*\b that starts at pos ends (0: no match).
\* Both repeats are greedy, so the longest end that \b accepts is taken.
number_match_end(text, pos) ==
  IF ~(IsDigit(text[pos]) /\ word_boundary(text, pos - 1))
  THEN 0
  ELSE LET ends == { e \in pos .. run_end(text, pos, NumberChars) : word_boundary(text, e) }
       IN  IF ends = {} THEN 0 ELSE CHOOSE e \in ends : \A f \in ends : f <= e

\* Where a match of \b[A-Z][a-zA-Z]+\b that starts at pos ends (0: no match).
entity_match_end(text, pos) ==
  IF ~(IsUpper(text[pos]) /\ word_boundary(text, pos - 1))
  THEN 0
  ELSE LET e == run_end(text, pos, AlphaChars)
       IN  IF e > pos /\ word_boundary(text, e) THEN e ELSE 0

match_end(pattern, text, pos) ==
  IF pattern = "number" THEN number_match_end(text, pos) ELSE entity_match_end(text, pos)

\* re.findall: the non-overlapping matches, scanning from the left.
RECURSIVE findall(_, _, _)
findall(pattern, text, pos) ==
  IF pos > Len(text) THEN <<>>
  ELSE LET e == match_end(pattern, text, pos)
       IN  IF e = 0 THEN findall(pattern, text, pos + 1)
           ELSE <<SubSeq(text, pos, e)>> \o findall(pattern, text, e + 1)

ExcludedWords == { <<"i">>, <<"t", "h", "e">> }

RECURSIVE drop_excluded(_)
drop_excluded(ws) ==
  IF ws = <<>> THEN <<>>
  ELSE (IF lower(Head(ws)) \in ExcludedWords THEN <<>> ELSE <<Head(ws)>>)
         \o drop_excluded(Tail(ws))

\* extract_facts
extract_facts(text) ==
  [ numbers  |-> findall("number", text, 1),
    entities |-> drop_excluded(findall("entity", text, 1)) ]

RECURSIVE all_in(_, _)
all_in(facts, rewritten) ==
  IF facts = <<>> THEN TRUE
  ELSE IF ~str_contains(Head(facts), rewritten) THEN FALSE
  ELSE all_in(Tail(facts), rewritten)

\* A bug: the entities are not looked at.
check_facts_numbers_only(original, rewritten) ==
  all_in(dict_get(original, "numbers", <<>>), rewritten)

\* check_facts
check_facts(original, rewritten) ==
  all_in(dict_get(original, "numbers", <<>>) \o dict_get(original, "entities", <<>>),
         rewritten)

\* A bug: the text of the model is returned whatever the guard would say.
apply_plan_unguarded(draft, plan, model) == model.generate

\* apply_plan.  The model is a record [generate]: the text its generate
\* method returns.  The rewriting is a stub that keeps the draft.
apply_plan(draft, plan, model) ==
  LET facts     == extract_facts(draft)
      rewritten == draft
  IN  IF ~check_facts(facts, rewritten) THEN draft ELSE rewritten

(***************************************************************************)
(* State.                                                                  *)
(***************************************************************************)
VARIABLES
  sm,       \* a SoapinessMeter used on its own
  added,    \* every utterance passed to sm's update, oldest first
  linter,   \* the Linter objects, by conversation
  meters,   \* the SoapinessMeter objects the Linters hold
  pc,       \* where each conversation's inspect call stands: "idle", "feeding"
  frame,    \* the running inspect call: draft, and the utterances still to feed
  calls,    \* every inspect call a conversation made: [draft, context]
  returned, \* what each of those calls returned, in order
  fstage,   \* the guard's run: "start", "applied", "own", "checked"
  fdraft,   \* the draft (the text the guard's calls are about)
  fgen,     \* the text the model's generate returns
  fout,     \* what apply_plan returned
  ffacts,   \* the fact set passed to check_facts
  fverdict  \* what check_facts returned

vars == <<sm, added, linter, meters, pc, frame, calls, returned,
          fstage, fdraft, fgen, fout, ffacts, fverdict>>

factVars == <<fstage, fdraft, fgen, fout, ffacts, fverdict>>

meterVars == <<sm, added>>

linterVars == <<linter, meters, pc, frame, calls, returned>>

Linters == {1, 2}

SeqsUpTo(S, n) == UNION { [1 .. k -> S] : k \in 0 .. n }

(***************************************************************************)
(* The meter on its own: any sequence of update calls.                     *)
(***************************************************************************)
MaxWindow == 2

MaxUpdates == 4

MeterUtterances ==
  { <<>>,
    <<" ">>,
    <<"a">>,
    <<"a", " ", "a">>,
    <<"b", " ", " ", "a">>,
    <<"a", " ", "b", " ", "a">> }

MeterInit ==
  /\ \E n \in 0 .. MaxWindow : sm = SoapinessMeter(n)
  /\ added = <<>>

MeterIdle ==
  /\ sm = SoapinessMeter(DefaultWindowSize)
  /\ added = <<>>

Update(u) ==
  /\ Len(added) < MaxUpdates
  /\ sm' = update(sm, u)
  /\ added' = Append(added, u)
  /\ UNCHANGED linterVars
  /\ UNCHANGED factVars

(***************************************************************************)
(* The fact guard: apply_plan on a draft with a model that returns any     *)
(* text, and check_facts on a fact set and a text.                         *)
(***************************************************************************)
MaxDraftLen == 4

FactChars == { "T", "h", "e", "1", ".", " " }

StringsUpTo(n) == SeqsUpTo(FactChars, n)

NoFacts == [ numbers |-> <<>>, entities |-> <<>> ]

\* Fact sets as a caller may build them; a key may be absent.
FactSets ==
  { [ numbers |-> n, entities |-> e ] :
      n \in { <<>>, << <<"1">> >>, << <<"1", ".", "1">>, <<"1">> >> },
      e \in { <<>>, << <<"T", "h">> >>, << <<"h">>, <<>> >> } }
  \cup { [ numbers |-> << <<"1">> >> ], [ entities |-> << <<"T", "h">> >> ] }

SomePlans ==
  { PlanNone, Plan("micro", [ numbers |-> TRUE ], <<>>, <<>>, DefaultMaxEditRatio) }

\* The texts a model may return for a draft: the draft with any of its
\* characters deleted, and texts that do not depend on the draft.
RECURSIVE Deletions(_)
Deletions(s) ==
  IF s = <<>> THEN { <<>> }
  ELSE LET rest == Deletions(Tail(s))
       IN  rest \cup { <<Head(s)>> \o x : x \in rest }

FixedTexts == { <<"m", "o", "d">>, <<"1">>, <<"T", "h">>, <<"e", " ", "1", ".", "1", " ", "T", "h">> }

ModelTexts(draft) == Deletions(draft) \cup FixedTexts

FactIdle ==
  /\ fstage = "start"
  /\ fdraft = <<>>
  /\ fgen = <<>>
  /\ fout = <<>>
  /\ ffacts = NoFacts
  /\ fverdict = TRUE

FactInit ==
  /\ fstage = "start"
  /\ fdraft \in StringsUpTo(MaxDraftLen)
  /\ fgen = <<>>
  /\ fout = <<>>
  /\ ffacts = NoFacts
  /\ fverdict = TRUE

\* apply_plan(draft, plan, model), the model returning the text gen.
ApplyPlan(plan, gen) ==
  /\ fstage = "start"
  /\ fstage' = "applied"
  /\ fgen' = gen
  /\ fout' = apply_plan(fdraft, plan, [ generate |-> gen ])
  /\ UNCHANGED <<fdraft, ffacts, fverdict>>
  /\ UNCHANGED meterVars
  /\ UNCHANGED linterVars

\* check_facts(extract_facts(draft), draft)
CheckOwnFacts ==
  /\ fstage = "start"
  /\ fstage' = "own"
  /\ ffacts' = extract_facts(fdraft)
  /\ fverdict' = check_facts(extract_facts(fdraft), fdraft)
  /\ UNCHANGED <<fdraft, fgen, fout>>
  /\ UNCHANGED meterVars
  /\ UNCHANGED linterVars

\* check_facts(facts, draft) for a fact set of any origin.
CheckFacts(facts) ==
  /\ fstage = "start"
  /\ fstage' = "checked"
  /\ ffacts' = facts
  /\ fverdict' = check_facts(facts, fdraft)
  /\ UNCHANGED <<fdraft, fgen, fout>>
  /\ UNCHANGED meterVars
  /\ UNCHANGED linterVars

FactNext ==
  \/ \E plan \in SomePlans, gen \in ModelTexts(fdraft) : ApplyPlan(plan, gen)
  \/ CheckOwnFacts
  \/ \E facts \in FactSets : CheckFacts(facts)

(***************************************************************************)
(* Linter.inspect, one conversation per Linter.                            *)
(***************************************************************************)
MaxCalls == 2

MaxContext == 1

NoDictionary == [ k \in {} |-> <<>> ]

EmptyPools == [ syn |-> <<>>, rhythm |-> <<>> ]

\* A rhythm record without a "pattern" key gets the default pattern.
FullPools ==
  [ syn    |-> << [pattern |-> <<"inversion">>], [pattern |-> <<"ellipsis">>] >>,
    rhythm |-> << [id |-> <<"r1">>] >> ]

\* The dictionary and the cliché list a Linter is configured with.
Configurations ==
  { [ dictionary |-> NoDictionary, cliches |-> <<>> ],
    [ dictionary |-> EmptyPools,   cliches |-> << <<"a">> >> ],
    [ dictionary |-> FullPools,    cliches |-> << <<"b", " ", "a">>, <<"a">>, <<"b", "b">> >> ],
    [ dictionary |-> FullPools,    cliches |-> << <<"B">> >> ] }

Thresholds == { 0, (4 * Scale) \div 10, Scale \div 2, (55 * Scale) \div 100, Scale }

NoCooldowns == [ k \in {} |-> 0 ]

Drafts == { <<>>, <<"a">>, <<"B", " ", "a">> }

ContextUtterances == { <<"a">>, <<"a", " ", "b">> }

NoFrame == [ draft |-> <<>>, todo |-> <<>> ]

LinterIdle ==
  /\ linter = [ l \in Linters |-> Linter(l, NoDictionary, <<>>, NoCooldowns, Scale \div 2) ]
  /\ meters = [ l \in Linters |-> SoapinessMeter(DefaultWindowSize) ]
  /\ pc = [ l \in Linters |-> "idle" ]
  /\ frame = [ l \in Linters |-> NoFrame ]
  /\ calls = [ l \in Linters |-> <<>> ]
  /\ returned = [ l \in Linters |-> <<>> ]

\* A bug: every call starts from a fresh aggregator.
InspectCallResetting(l, draft, context) ==
  /\ pc[l] = "idle"
  /\ Len(calls[l]) < MaxCalls
  /\ pc' = [ pc EXCEPT ![l] = "feeding" ]
  /\ frame' = [ frame EXCEPT ![l] = [ draft |-> draft, todo |-> context \o <<draft>> ] ]
  /\ calls' = [ calls EXCEPT ![l] = Append(@, [ draft |-> draft, context |-> context ]) ]
  /\ meters' = [ meters EXCEPT ![linter[l].meter] = SoapinessMeter(DefaultWindowSize) ]
  /\ UNCHANGED <<linter, returned>>
  /\ UNCHANGED meterVars
  /\ UNCHANGED factVars

\* inspect(draft, context) is entered.
InspectCall(l, draft, context) ==
  /\ pc[l] = "idle"
  /\ Len(calls[l]) < MaxCalls
  /\ pc' = [ pc EXCEPT ![l] = "feeding" ]
  /\ frame' = [ frame EXCEPT ![l] = [ draft |-> draft, todo |-> context \o <<draft>> ] ]
  /\ calls' = [ calls EXCEPT ![l] = Append(@, [ draft |-> draft, context |-> context ]) ]
  /\ UNCHANGED <<linter, meters, returned>>
  /\ UNCHANGED meterVars
  /\ UNCHANGED factVars

\* One turn of the update loop.
InspectUpdate(l) ==
  /\ pc[l] = "feeding"
  /\ frame[l].todo # <<>>
  /\ meters' = [ meters EXCEPT ![linter[l].meter] = update(@, Head(frame[l].todo)) ]
  /\ frame' = [ frame EXCEPT ![l].todo = Tail(@) ]
  /\ UNCHANGED <<linter, pc, calls, returned>>
  /\ UNCHANGED meterVars
  /\ UNCHANGED factVars

\* The scores are computed and the plan is returned.
InspectReturn(l) ==
  /\ pc[l] = "feeding"
  /\ frame[l].todo = <<>>
  /\ returned' = [ returned EXCEPT ![l] =
                     Append(@, inspect_plan(linter[l], meters[linter[l].meter], frame[l].draft)) ]
  /\ pc' = [ pc EXCEPT ![l] = "idle" ]
  /\ frame' = [ frame EXCEPT ![l] = NoFrame ]
  /\ UNCHANGED <<linter, meters, calls>>
  /\ UNCHANGED meterVars
  /\ UNCHANGED factVars

Init ==
  /\ MeterIdle
  /\ FactIdle
  /\ \E c \in Configurations, t \in Thresholds :
       linter = [ l \in Linters |-> Linter(l, c.dictionary, c.cliches, NoCooldowns, t) ]
  /\ meters = [ l \in Linters |-> SoapinessMeter(DefaultWindowSize) ]
  /\ pc = [ l \in Linters |-> "idle" ]
  /\ frame = [ l \in Linters |-> NoFrame ]
  /\ calls = [ l \in Linters |-> <<>> ]
  /\ returned = [ l \in Linters |-> <<>> ]

Next ==
  \/ \E d \in Drafts, c \in SeqsUpTo(ContextUtterances, MaxContext) : InspectCall(1, d, c)
  \/ InspectUpdate(1)
  \/ InspectReturn(1)

Spec == Init /\ [][Next]_vars

MeterNext == \E u \in MeterUtterances : Update(u)

FactSpecInit == MeterIdle /\ LinterIdle /\ FactInit

FactSpec == FactSpecInit /\ [][FactNext]_vars

MeterSpecInit == MeterInit /\ LinterIdle /\ FactIdle

MeterSpec == MeterSpecInit /\ [][MeterNext]_vars

(***************************************************************************)
(* Two conversations, each with its own Linter, their inspect calls        *)
(* interleaved at every step.                                              *)
(***************************************************************************)
MaxConvCalls == 3

ConvThresholds == { (4 * Scale) \div 10, Scale \div 2 }

ConvCliches == << <<"a">> >>

ConvDrafts == { <<"a">>, <<"B", " ", "a">> }

ConvContextUtterances == { <<"b">> }

ConvInit ==
  /\ MeterIdle
  /\ FactIdle
  /\ \E t1 \in ConvThresholds, t2 \in ConvThresholds :
       linter = [ l \in Linters |->
                    Linter(l, NoDictionary, ConvCliches, NoCooldowns,
                           IF l = 1 THEN t1 ELSE t2) ]
  /\ meters = [ l \in Linters |-> SoapinessMeter(DefaultWindowSize) ]
  /\ pc = [ l \in Linters |-> "idle" ]
  /\ frame = [ l \in Linters |-> NoFrame ]
  /\ calls = [ l \in Linters |-> <<>> ]
  /\ returned = [ l \in Linters |-> <<>> ]

ConvNext ==
  \E l \in Linters :
    \/ \E d \in ConvDrafts, c \in SeqsUpTo(ConvContextUtterances, MaxContext) :
         /\ Len(calls[1]) + Len(calls[2]) < MaxConvCalls
         /\ InspectCall(l, d, c)
    \/ InspectUpdate(l)
    \/ InspectReturn(l)

ConvSpec == ConvInit /\ [][ConvNext]_vars

(***************************************************************************)
(* Properties of the meter on its own (MeterSpec).                         *)
(***************************************************************************)
Min(a, b) == IF a <= b THEN a ELSE b

LastN(s, n) == SubSeq(s, Len(s) - n + 1, Len(s))

\* C3: after k update calls on a meter of capacity N the window is the last
\* min(k, N) utterances added, in the order they were added; so it never
\* holds more than N, and a full window loses its oldest utterance only.
C3_WindowIsLastAdded ==
  /\ Len(sm.window) <= sm.window_size
  /\ sm.window = LastN(added, Min(Len(added), sm.window_size))

C3_Witness ==
  /\ sm.window_size = 2
  /\ Len(added) = 4
  /\ added[1] # added[3]
  /\ added[2] # added[4]
  /\ sm.window = <<added[3], added[4]>>

\* The n-grams (n in 1..3) of a token list, and how often g occurs in it.
NgramsOf(tokens) ==
  UNION { { SubSeq(tokens, i, i + n - 1) : i \in 1 .. (Len(tokens) - n + 1) } : n \in 1 .. 3 }

Occurrences(g, tokens) ==
  Cardinality({ i \in 1 .. (Len(tokens) - Len(g) + 1) :
                  SubSeq(tokens, i, i + Len(g) - 1) = g })

RECURSIVE OccurrencesIn(_, _)
OccurrencesIn(g, utterances) ==
  IF utterances = <<>> THEN 0
  ELSE Occurrences(g, split(Head(utterances))) + OccurrencesIn(g, Tail(utterances))

\* C4: the n-gram table is cumulative: its keys are the n-grams (n in 1..3)
\* of every utterance ever added, and each count is the number of the
\* n-gram's contiguous occurrences over all of them, evicted ones included.
C4_TableIsCumulative ==
  /\ DOMAIN sm.ngram_counter = UNION { NgramsOf(split(added[i])) : i \in DOMAIN added }
  /\ \A g \in DOMAIN sm.ngram_counter :
       sm.ngram_counter[g] = OccurrencesIn(g, added)

\* An utterance was evicted, and an n-gram is counted more often than it
\* occurs in the window.
C4_Witness ==
  /\ Len(added) > Len(sm.window)
  /\ sm.window_size > 0
  /\ \E g \in DOMAIN sm.ngram_counter :
       /\ Len(g) = 3
       /\ OccurrencesIn(g, sm.window) = 0
       /\ sm.ngram_counter[g] >= 1

(***************************************************************************)
(* Properties of Linter.inspect (Spec).                                    *)
(***************************************************************************)
Last(s) == s[Len(s)]

\* Conversation l's last inspect call has returned and no other has begun.
Returned(l) == pc[l] = "idle" /\ returned[l] # <<>>

\* The score of l's last call, from the aggregator as that call left it.
LastScore(l) ==
  LET m   == meters[linter[l].meter]
      hit == IF cliche_hits(Last(calls[l]).draft, linter[l].cliches) > 0 THEN 1 ELSE 0
  IN  (W_REPETITION * repetition_score(m).val + W_KL * kl_divergence(m).val
         + W_GESTURE * gesture_repetition(m).val + W_CLICHE * hit * Scale) \div WeightUnit

\* C1: inspect returns mode "none" exactly when the score, computed after the
\* context and the draft were fed to the aggregator, is below the threshold;
\* otherwise (the score equal to the threshold included) it returns "micro".
C1_NoneIffBelowThreshold ==
  \A l \in Linters :
    Returned(l) =>
      /\ Last(returned[l]).exc = ""
      /\ Last(returned[l]).val.mode \in {"none", "micro"}
      /\ Last(returned[l]).val.mode = "none" <=> LastScore(l) < linter[l].threshold

C1_Witness ==
  \E l \in Linters :
    /\ Returned(l)
    /\ linter[l].threshold > 0
    /\ LastScore(l) = linter[l].threshold
    /\ Last(returned[l]).val.mode = "micro"

\* The phrase occurs in the text when letter case is ignored on both sides.
OccursIgnoringCase(phrase, text) ==
  \E i \in 0 .. (Len(text) - Len(phrase)) :
     \A j \in 1 .. Len(phrase) : lower_char(text[i + j]) = lower_char(phrase[j])

\* C5: cliché_hits counts a configured phrase exactly when it occurs in the
\* text with letter case ignored in the text and in the phrase, and counts
\* it once.
C5_HitsIgnoreCase ==
  \A l \in Linters :
    Returned(l) =>
      cliche_hits(Last(calls[l]).draft, linter[l].cliches)
        = Cardinality({ i \in DOMAIN linter[l].cliches :
                          OccursIgnoringCase(linter[l].cliches[i], Last(calls[l]).draft) })

RECURSIVE Detected(_, _)
Detected(draft, cliches) ==
  IF cliches = <<>> THEN <<>>
  ELSE (IF cliche_hits(draft, <<Head(cliches)>>) >= 1 THEN <<Head(cliches)>> ELSE <<>>)
         \o Detected(draft, Tail(cliches))

\* C6: in a "micro" plan, remove is the configured phrases that cliché_hits
\* finds in the draft, in configured order; and a configured phrase written
\* in lower case that occurs in the draft, whatever the draft's letter case,
\* is in remove.
C6_RemoveIsDetected ==
  \A l \in Linters :
    (Returned(l) /\ Last(returned[l]).val.mode = "micro") =>
      LET draft  == Last(calls[l]).draft
          remove == Last(returned[l]).val.remove
      IN  /\ remove = Detected(draft, linter[l].cliches)
          /\ \A i \in DOMAIN linter[l].cliches :
               LET c == linter[l].cliches[i]
               IN  (c = lower(c) /\ OccursIgnoringCase(c, draft)) => c \in Range(remove)

\* Two configured phrases are found in a draft with a capital, the third not.
C6_Witness ==
  \E l \in Linters :
    /\ Returned(l)
    /\ Last(returned[l]).val.mode = "micro"
    /\ Last(calls[l]).draft = <<"B", " ", "a">>
    /\ Last(returned[l]).val.remove = << <<"b", " ", "a">>, <<"a">> >>
    /\ Len(linter[l].cliches) = 3

\* C7: a returned plan is either "none" with locks, remove and inject empty,
\* or "micro" with the three locks true, max_edit_ratio 0.25 and the default
\* style constraints; there is no other shape.
C7_NoPartialPlan ==
  \A l \in Linters : \A i \in DOMAIN returned[l] :
    LET p == returned[l][i].val
    IN  /\ returned[l][i].exc = ""
        /\ \/ /\ p.mode = "none"
              /\ DOMAIN p.locks = {}
              /\ p.remove = <<>>
              /\ p.inject = <<>>
           \/ /\ p.mode = "micro"
              /\ DOMAIN p.locks = {"numbers", "named_entities", "quotes"}
              /\ \A k \in DOMAIN p.locks : p.locks[k] = TRUE
              /\ p.max_edit_ratio * 4 = Scale
              /\ p.style_constraints.voice_weight * 10 = 9 * Scale
              /\ p.style_constraints.temperature_cap * 10 = 8 * Scale

\* One conversation was returned a "micro" plan with something to remove and
\* something to inject, and a "none" plan.
C7_Witness ==
  \E l \in Linters : \E i, j \in DOMAIN returned[l] :
    /\ returned[l][i].val.mode = "micro"
    /\ returned[l][i].val.remove # <<>>
    /\ returned[l][i].val.inject # <<>>
    /\ returned[l][j].val.mode = "none"

\* The tokens of a window, and whether each distinct one occurs equally often.
RECURSIVE WindowTokens(_)
WindowTokens(w) ==
  IF w = <<>> THEN <<>> ELSE split(Head(w)) \o WindowTokens(Tail(w))

TimesIn(t, tokens) == Cardinality({ i \in DOMAIN tokens : tokens[i] = t })

UniformTokens(tokens) ==
  \A t, u \in Range(tokens) : TimesIn(t, tokens) = TimesIn(u, tokens)

\* C9: in every aggregator state no score raises; repetition_score is 0 on
\* an empty n-gram table; kl_divergence is 0 when the window has no tokens
\* and when its tokens are uniformly distributed; and every inspect call
\* returns a plan.
C9_ScoresNeverFail ==
  \A l \in Linters :
    LET m      == meters[l]
        tokens == WindowTokens(m.window)
    IN  /\ repetition_score(m).exc = ""
        /\ kl_divergence(m).exc = ""
        /\ gesture_repetition(m).exc = ""
        /\ DOMAIN m.ngram_counter = {} => repetition_score(m).val = 0
        /\ tokens = <<>> => kl_divergence(m).val = 0
        /\ UniformTokens(tokens) => kl_divergence(m).val = 0
        /\ \A i \in DOMAIN returned[l] :
             returned[l][i].exc = "" /\ returned[l][i].val.mode \in {"none", "micro"}

\* The empty draft with an empty context was inspected, and then a draft
\* that leaves two distinct tokens equally frequent in the window.
C9_Witness ==
  \E l \in Linters :
    /\ Len(returned[l]) = 2
    /\ calls[l][1] = [ draft |-> <<>>, context |-> <<>> ]
    /\ Cardinality(Range(WindowTokens(meters[l].window))) = 2
    /\ UniformTokens(WindowTokens(meters[l].window))

(***************************************************************************)
(* Properties of two conversations (ConvSpec).                             *)
(***************************************************************************)
Front(s) == SubSeq(s, 1, Len(s) - 1)

\* The calls of a conversation made one after the other on a Linter of the
\* same configuration that nobody else uses: the results, and the meter.
RECURSIVE AloneResults(_, _, _)
AloneResults(L, meter, cs) ==
  IF cs = <<>> THEN <<>>
  ELSE LET r == inspect(L, meter, Head(cs).draft, Head(cs).context)
       IN  <<r.result>> \o AloneResults(L, r.meter, Tail(cs))

RECURSIVE AloneMeter(_, _, _)
AloneMeter(L, meter, cs) ==
  IF cs = <<>> THEN meter
  ELSE AloneMeter(L, inspect(L, meter, Head(cs).draft, Head(cs).context).meter, Tail(cs))

\* C10: with a Linter per conversation, the plans a conversation is returned
\* are those its own calls produce on a Linter used by nobody else, however
\* the calls of the other conversation are interleaved; and between its
\* calls its window and n-gram table are what its own calls made them.
C10_PlansIgnoreOtherConversations ==
  \A l \in Linters :
    LET fresh == SoapinessMeter(DefaultWindowSize)
        done  == IF pc[l] = "idle" THEN calls[l] ELSE Front(calls[l])
    IN  /\ returned[l] = AloneResults(linter[l], fresh, done)
        /\ pc[l] = "idle" => meters[linter[l].meter] = AloneMeter(linter[l], fresh, done)

\* Both conversations are in the middle of a call that fed its context,
\* one of them in its second call.
C10_Witness ==
  /\ \A l \in Linters :
       /\ pc[l] = "feeding"
       /\ Len(frame[l].todo) = 1
       /\ Len(Last(calls[l]).context) = 1
  /\ \E l \in Linters : Len(returned[l]) = 1 /\ Last(returned[l]).val.mode = "micro"

(***************************************************************************)
(* Properties of the fact guard (FactSpec).                                *)
(***************************************************************************)
\* s occurs in t as a contiguous slice.
IsSubstring(s, t) ==
  \E i \in 1 .. (Len(t) + 1) : i + Len(s) - 1 <= Len(t) /\ SubSeq(t, i, i + Len(s) - 1) = s

FactStrings(facts) ==
  (IF "numbers" \in DOMAIN facts THEN Range(facts.numbers) ELSE {})
    \cup (IF "entities" \in DOMAIN facts THEN Range(facts.entities) ELSE {})

\* C2: when the text the model returns lacks a number or an entity of the
\* draft, apply_plan returns the draft; it returns something else than the
\* draft only if that is the model's text and check_facts accepts it.
C2_FallbackToDraft ==
  fstage = "applied" =>
    /\ (\E f \in FactStrings(extract_facts(fdraft)) : ~IsSubstring(f, fgen)) => fout = fdraft
    /\ fout # fdraft => (fout = fgen /\ check_facts(extract_facts(fdraft), fout))

\* The draft holds a number and an entity, the model's text only the number.
C2_Witness ==
  /\ fstage = "applied"
  /\ extract_facts(fdraft).numbers # <<>>
  /\ extract_facts(fdraft).entities # <<>>
  /\ IsSubstring(extract_facts(fdraft).numbers[1], fgen)
  /\ ~IsSubstring(extract_facts(fdraft).entities[1], fgen)
  /\ fout = fdraft

\* C8: check_facts accepts a text against the facts extracted from it, and
\* in general accepts exactly when every number and every entity of the
\* fact set is a substring of the text.
C8_CheckFactsIsContainment ==
  /\ fstage = "own" => (ffacts = extract_facts(fdraft) /\ fverdict = TRUE)
  /\ fstage \in {"own", "checked"} =>
       (fverdict <=> \A f \in FactStrings(ffacts) : IsSubstring(f, fdraft))

\* A fact set whose number is in the text and whose entity is not.
C8_Witness ==
  /\ fstage = "checked"
  /\ fverdict = FALSE
  /\ "numbers" \in DOMAIN ffacts
  /\ "entities" \in DOMAIN ffacts
  /\ ffacts.numbers # <<>>
  /\ \A i \in DOMAIN ffacts.numbers : IsSubstring(ffacts.numbers[i], fdraft)

(***************************************************************************)
(* The updates of a sequence of inspect calls (Spec).                      *)
(***************************************************************************)
\* The utterances a conversation's calls pass, in the order inspect feeds
\* them: each call's context, oldest first, and then its draft.
RECURSIVE AllPassed(_)
AllPassed(cs) ==
  IF cs = <<>> THEN <<>>
  ELSE Head(cs).context \o <<Head(cs).draft>> \o AllPassed(Tail(cs))

\* C11: a call feeds its context in order and then its draft, one update
\* each, to the aggregator its Linter keeps from call to call, and returns
\* only after the last of them: at every step the aggregator holds what all
\* the calls so far have passed, less what the running call has still to
\* feed, an utterance passed again being appended and counted again; and
\* the plan returned is computed from the aggregator fed with all of it.
C11_EveryPassedUtteranceIsFed ==
  \A l \in Linters :
    LET m      == meters[linter[l].meter]
        passed == AllPassed(calls[l])
        todo   == frame[l].todo
        fed    == SubSeq(passed, 1, Len(passed) - Len(todo))
    IN  /\ Len(todo) <= Len(passed)
        /\ todo = LastN(passed, Len(todo))
        /\ pc[l] = "idle" => todo = <<>>
        /\ Len(returned[l]) = Len(calls[l]) - (IF pc[l] = "feeding" THEN 1 ELSE 0)
        /\ m.window = LastN(fed, Min(Len(fed), m.window_size))
        /\ DOMAIN m.ngram_counter = UNION { NgramsOf(split(fed[i])) : i \in DOMAIN fed }
        /\ \A g \in DOMAIN m.ngram_counter : m.ngram_counter[g] = OccurrencesIn(g, fed)
        /\ Returned(l) =>
             Last(returned[l]) =
               inspect_plan(linter[l],
                            update_all(SoapinessMeter(DefaultWindowSize), passed),
                            Last(calls[l]).draft)

\* The same utterance was the context of two calls: it is in the window
\* twice, and its bigram is counted twice.
C11_Witness ==
  \E l \in Linters :
    LET u == <<"a", " ", "b">>
        m == meters[linter[l].meter]
    IN  /\ Returned(l)
        /\ Len(calls[l]) = 2
        /\ calls[l][1].context = <<u>>
        /\ calls[l][2].context = <<u>>
        /\ Len(m.window) = 4
        /\ TimesIn(u, m.window) = 2
        /\ m.ngram_counter[<< <<"a">>, <<"b">> >>] = 2

=============================================================================
